---- MODULE Spec2Model ----
(***************************************************************************)
(* LGNS calculator: the market-data gateway (services/api.ts in its three  *)
(* revisions) and the projection engine (the results / summary memos of    *)
(* App.tsx in its revisions).                                              *)
(*                                                                         *)
(* Numbers are JavaScript numbers without rounding: an extended rational   *)
(* n/d in lowest terms, with d = 0 for the three non-finite values (NaN =  *)
(* 0/0, +Infinity = 1/0, -Infinity = -1/0).  Negative zero is not          *)
(* distinguished from zero.                                                *)
(***************************************************************************)
EXTENDS Integers, Sequences, FiniteSets, Bags, TLC

VARIABLES
    apiVariant,       \* which revision of services/api.ts is deployed
    pricePc,          \* fetchCurrentPrice: "idle", "fetch", "json", "done"
    priceRequests,    \* HTTP requests issued by the current invocation
    priceResp,        \* how the HTTP request settled
    pricePayload,     \* what the upstream body held
    priceResult,      \* the settled promise of the current invocation
    histPc,           \* fetchHistoricalData: "idle", "pools", "poolsJson", "ohlcv", "ohlcvJson", "done"
    poolsRequests,    \* pools requests issued by the current invocation
    ohlcvRequests,    \* OHLCV requests issued by the current invocation
    poolsResp,        \* how the pools request settled
    poolsPayload,     \* the pools body
    ohlcvTarget,      \* pool address the OHLCV request was sent to
    ohlcvResp,        \* how the OHLCV request settled
    ohlcvPayload,     \* the OHLCV body
    histResult,       \* the settled promise of the current invocation
    appVariant,       \* which revision of App.tsx is deployed
    investment, annualYield, startTimestamp,   \* user parameters (useState)
    stats, historicalPrices,                   \* API data (useState)
    results, summary,                          \* the memoised projection (useMemo)
    loading, refreshing, error,                \* refresh indicators (useState)
    refreshPc,        \* each invocation of loadData: "idle", "loading", "done"
    priceUpstream,    \* what the token endpoint does to the invocation's request
    histUpstream,     \* what the pools and OHLCV endpoints do to the invocation's requests
    pricePromise,     \* the invocation's fetchCurrentPrice(...) promise
    histPromise,      \* the invocation's fetchHistoricalData(...) promise
    lastCompleted     \* the invocation whose finally block ran last (0: none yet)

priceVars == <<pricePc, priceRequests, priceResp, pricePayload, priceResult>>
histVars == <<histPc, poolsRequests, ohlcvRequests, poolsResp, poolsPayload,
              ohlcvTarget, ohlcvResp, ohlcvPayload, histResult>>
refreshVars == <<loading, refreshing, error, refreshPc, priceUpstream, histUpstream,
                 pricePromise, histPromise, lastCompleted>>
appVars == <<appVariant, investment, annualYield, startTimestamp, stats, historicalPrices,
             results, summary, refreshVars>>
vars == <<apiVariant, priceVars, histVars, appVars>>

(***************************************************************************)
(* JavaScript numbers.                                                     *)
(***************************************************************************)
Abs(x) == IF x < 0 THEN -x ELSE x

SgnPos(x) == IF x < 0 THEN -1 ELSE 1

Sign(x) == IF x < 0 THEN -1 ELSE IF x > 0 THEN 1 ELSE 0

RECURSIVE GCD(_, _)
GCD(a, b) == IF b = 0 THEN a ELSE GCD(b, a % b)

NaN == [n |-> 0, d |-> 0]

Infinity == [n |-> 1, d |-> 0]

Mk(n, d) ==
    IF d = 0 THEN [n |-> Sign(n), d |-> 0]
    ELSE IF n = 0 THEN [n |-> 0, d |-> 1]
    ELSE LET g == GCD(Abs(n), Abs(d))
         IN  [n |-> SgnPos(d) * (n \div g), d |-> Abs(d) \div g]

Num(i) == Mk(i, 1)

Zero == Num(0)

IsNaN(x) == x.d = 0 /\ x.n = 0

IsFinite(x) == x.d # 0

IsZero(x) == x.d # 0 /\ x.n = 0

Mul(x, y) == IF IsNaN(x) \/ IsNaN(y) THEN NaN ELSE Mk(x.n * y.n, x.d * y.d)

Div(x, y) ==
    IF IsNaN(x) \/ IsNaN(y) THEN NaN
    ELSE Mk(x.n * y.d * SgnPos(y.n), x.d * Abs(y.n))

\* x >= 0
NonNegative(x) == ~IsNaN(x) /\ x.n >= 0

(***************************************************************************)
(* JSON values as the code sees them after response.json().                *)
(***************************************************************************)
Undef == [t |-> "undef"]

Null == [t |-> "null"]

Str(s) == [t |-> "str", s |-> s]

JNum(x) == [t |-> "num", v |-> x]

Obj(f) == [t |-> "obj", f |-> f]

Arr(a) == [t |-> "arr", a |-> a]

\* v.k raises a TypeError
PropThrows(v) == v.t \in {"undef", "null"}

\* v.k where it does not raise
Prop(v, k) == IF v.t = "obj" /\ k \in DOMAIN v.f THEN v.f[k] ELSE Undef

\* v[i], zero-based, where it does not raise
Index(v, i) == IF v.t = "arr" /\ i + 1 \in DOMAIN v.a THEN v.a[i + 1] ELSE Undef

Truthy(v) ==
    CASE v.t \in {"undef", "null"} -> FALSE
      [] v.t = "str" -> Len(v.s) > 0
      [] v.t = "num" -> ~IsNaN(v.v) /\ ~IsZero(v.v)
      [] OTHER -> TRUE

(***************************************************************************)
(* parseFloat: the longest decimal prefix of the string form of the value. *)
(* Strings are sequences of characters.  Exponents and the literal         *)
(* "Infinity" are outside the alphabet of the inputs.                      *)
(***************************************************************************)
IsDigit(c) == c \in {"0", "1", "2", "3", "4", "5", "6", "7", "8", "9"}

DigitVal(c) ==
    CASE c = "0" -> 0 [] c = "1" -> 1 [] c = "2" -> 2 [] c = "3" -> 3 [] c = "4" -> 4
      [] c = "5" -> 5 [] c = "6" -> 6 [] c = "7" -> 7 [] c = "8" -> 8 [] c = "9" -> 9

RECURSIVE DigitRun(_, _)
DigitRun(s, i) == IF i <= Len(s) /\ IsDigit(s[i]) THEN 1 + DigitRun(s, i + 1) ELSE 0

RECURSIVE SpaceRun(_, _)
SpaceRun(s, i) == IF i <= Len(s) /\ s[i] = " " THEN 1 + SpaceRun(s, i + 1) ELSE 0

RECURSIVE DigitsValue(_, _, _)
DigitsValue(s, i, k) ==
    IF k = 0 THEN 0 ELSE DigitsValue(s, i, k - 1) * 10 + DigitVal(s[i + k - 1])

RECURSIVE Pow10(_)
Pow10(k) == IF k = 0 THEN 1 ELSE 10 * Pow10(k - 1)

ParseFloatStr(s) ==
    LET p0 == SpaceRun(s, 1) + 1
        signed == p0 <= Len(s) /\ s[p0] \in {"-", "+"}
        sgn == IF p0 <= Len(s) /\ s[p0] = "-" THEN -1 ELSE 1
        p1 == IF signed THEN p0 + 1 ELSE p0
        il == DigitRun(s, p1)
        p2 == p1 + il
        fl == IF p2 <= Len(s) /\ s[p2] = "." THEN DigitRun(s, p2 + 1) ELSE 0
    IN  IF il + fl = 0 THEN NaN
        ELSE Mk(sgn * (DigitsValue(s, p1, il) * Pow10(fl) + DigitsValue(s, p2 + 1, fl)),
                Pow10(fl))

ParseFloat(v) ==
    CASE v.t = "str" -> ParseFloatStr(v.s)
      [] v.t = "num" -> v.v
      [] OTHER -> NaN

\* x || 0 on a number
OrZero(x) == IF IsNaN(x) \/ IsZero(x) THEN Zero ELSE x

\* x ?? 0 on a number: a number is neither null nor undefined
Coalesce(x) == x

(***************************************************************************)
(* services/api.ts: fetchCurrentPrice.                                     *)
(***************************************************************************)
ApiVariants == {"okx", "gecko", "gecko0"}

TokenStats(p, c, m, v) ==
    [currentPrice |-> p, priceChange24h |-> c, marketCap |-> m, volume24h |-> v]

ZeroStats == TokenStats(Zero, Zero, Zero, Zero)

\* the outcome of a block of code: it raised, or it returned a value
Thrown == [thrown |-> TRUE]

Returned(v) == [thrown |-> FALSE, value |-> v]

\* a settled promise
Fulfilled(v) == [status |-> "fulfilled", value |-> v]

Rejected == [status |-> "rejected"]

Pending == [status |-> "pending"]

\* how a request can settle: fetch() rejects, or resolves with response.ok false or true
FetchOutcomes == {"reject", "notok", "ok"}

\* values an upstream field can hold
FieldVals ==
    { Undef, Null, Str(<<"a", "b", "c">>), Str(<<"0">>), Str(<<"1", ".", "5">>),
      Str(<<"-", "2">>), Str(<<"3", "x">>) }

\* what the body of the token endpoint holds, whichever provider serves it
Unparseable == [shape |-> "unparseable"]

NoPayload == [shape |-> "none"]

StatsPayloads ==
    { [shape |-> s] : s \in {"jsonNull", "noData", "nullData"} }
    \cup [shape : {"full"}, price : FieldVals, change : FieldVals,
          fdv : FieldVals, vol : FieldVals]

\* Provider C: { data: { priceUsd, priceChange24h, fdv, volume24h } }
EncodeOKX(p) ==
    CASE p.shape = "jsonNull" -> Null
      [] p.shape = "noData" -> Obj([code |-> Str(<<"0">>)])
      [] p.shape = "nullData" -> Obj([data |-> Null])
      [] p.shape = "full" ->
            Obj([data |-> Obj([priceUsd |-> p.price, priceChange24h |-> p.change,
                               fdv |-> p.fdv, volume24h |-> p.vol])])

\* Provider B: { data: { attributes: { price_usd, price_change_percentage: { h24 },
\*               fdv_usd, total_volume_usd } } }
EncodeGecko(p) ==
    CASE p.shape = "jsonNull" -> Null
      [] p.shape = "noData" -> Obj([errors |-> Str(<<"0">>)])
      [] p.shape = "nullData" -> Obj([data |-> Null])
      [] p.shape = "full" ->
            Obj([data |-> Obj([attributes |->
                Obj([price_usd |-> p.price,
                     price_change_percentage |->
                         IF p.change.t = "undef" THEN Undef ELSE Obj([h24 |-> p.change]),
                     fdv_usd |-> p.fdv, total_volume_usd |-> p.vol])])])

\* v?.k
OptProp(v, k) == IF PropThrows(v) THEN Undef ELSE Prop(v, k)

\* api.ts 15-25: the body of the try block once response.json() has resolved
ParseStatsOKX(json) ==
    IF PropThrows(json) THEN Thrown
    ELSE LET data == Prop(json, "data")
         IN  IF ~Truthy(data) THEN Thrown
             ELSE Returned(TokenStats(
                      OrZero(ParseFloat(Prop(data, "priceUsd"))),
                      Coalesce(ParseFloat(Prop(data, "priceChange24h"))),
                      Coalesce(ParseFloat(Prop(data, "fdv"))),
                      Coalesce(ParseFloat(Prop(data, "volume24h")))))

\* api.ts 83-93 and part_000 20-30
ParseStatsGecko(json) ==
    IF PropThrows(json) THEN Thrown
    ELSE LET attributes == OptProp(Prop(json, "data"), "attributes")
         IN  IF ~Truthy(attributes) THEN Thrown
             ELSE Returned(TokenStats(
                      OrZero(ParseFloat(Prop(attributes, "price_usd"))),
                      OrZero(ParseFloat(OptProp(Prop(attributes, "price_change_percentage"), "h24"))),
                      OrZero(ParseFloat(Prop(attributes, "fdv_usd"))),
                      OrZero(ParseFloat(Prop(attributes, "total_volume_usd")))))

ParseStats(v, p) ==
    IF p.shape = "unparseable" THEN Thrown    \* response.json() rejects
    ELSE IF v = "okx" THEN ParseStatsOKX(EncodeOKX(p))
    ELSE ParseStatsGecko(EncodeGecko(p))

\* the catch block of fetchCurrentPrice
CatchPriceMutant(r) == IF r.thrown THEN Rejected ELSE Fulfilled(r.value)

CatchPrice(r) == IF r.thrown THEN Fulfilled(ZeroStats) ELSE Fulfilled(r.value)

\* where fetchCurrentPrice continues after its catch block: it returns
PriceCatchPcMutant == "idle"

PriceCatchPc == "done"

\* the whole of fetchCurrentPrice as a function of what the upstream did
FetchCurrentPrice(v, resp, p) ==
    IF resp # "ok" THEN CatchPrice(Thrown) ELSE CatchPrice(ParseStats(v, p))

\* the caller invokes fetchCurrentPrice: fetch(url) issues the request
PriceCall ==
    /\ pricePc = "idle"
    /\ pricePc' = "fetch"
    /\ priceRequests' = priceRequests + 1
    /\ priceResult' = Pending
    /\ UNCHANGED <<priceResp, pricePayload, apiVariant, histVars, appVars>>

\* await fetch(url) settles; !response.ok raises
PriceFetchSettles ==
    /\ pricePc = "fetch"
    /\ \E r \in FetchOutcomes :
          /\ priceResp' = r
          /\ IF r = "ok"
                THEN /\ pricePc' = "json"
                     /\ UNCHANGED priceResult
                ELSE /\ pricePc' = PriceCatchPc
                     /\ priceResult' = CatchPrice(Thrown)
    /\ UNCHANGED <<priceRequests, pricePayload, apiVariant, histVars, appVars>>

\* await response.json() settles and the rest of the try block runs
PriceJsonSettlesOn(bodies) ==
    /\ pricePc = "json"
    /\ \E p \in bodies :
          LET r == ParseStats(apiVariant, p)
          IN  /\ pricePayload' = p
              /\ priceResult' = CatchPrice(r)
              /\ pricePc' = IF r.thrown THEN PriceCatchPc ELSE "done"
    /\ UNCHANGED <<priceRequests, priceResp, apiVariant, histVars, appVars>>

PriceJsonSettles == PriceJsonSettlesOn(StatsPayloads \cup {Unparseable})

\* the caller invokes fetchCurrentPrice again (a manual refresh)
PriceAgain ==
    /\ pricePc = "done"
    /\ pricePc' = "idle"
    /\ priceRequests' = 0
    /\ priceResp' = "none"
    /\ pricePayload' = NoPayload
    /\ priceResult' = Pending
    /\ UNCHANGED <<apiVariant, histVars, appVars>>

PriceInit ==
    /\ pricePc = "idle"
    /\ priceRequests = 0
    /\ priceResp = "none"
    /\ pricePayload = NoPayload
    /\ priceResult = Pending

(***************************************************************************)
(* services/api.ts: fetchHistoricalData.                                   *)
(***************************************************************************)
\* x - y
Sub(x, y) ==
    IF IsNaN(x) \/ IsNaN(y) THEN NaN
    ELSE IF x.d = 0 /\ y.d = 0 THEN (IF x.n = y.n THEN NaN ELSE x)
    ELSE IF x.d = 0 THEN x
    ELSE IF y.d = 0 THEN [n |-> -y.n, d |-> 0]
    ELSE Mk(x.n * y.d - y.n * x.d, x.d * y.d)

\* x > 0
Positive(x) == ~IsNaN(x) /\ x.n > 0

\* Number(s): the whole string must be a decimal literal; the empty string is 0
StrToNumber(s) ==
    LET p0 == SpaceRun(s, 1) + 1
        p1 == IF p0 <= Len(s) /\ s[p0] \in {"-", "+"} THEN p0 + 1 ELSE p0
        il == DigitRun(s, p1)
        p2 == p1 + il
        dot == p2 <= Len(s) /\ s[p2] = "."
        used == IF dot THEN p2 + DigitRun(s, p2 + 1) ELSE p2 - 1
    IN  IF p0 > Len(s) THEN Zero
        ELSE IF used = Len(s) THEN ParseFloatStr(s) ELSE NaN

\* the numeric coercion applied by item[0] * 1000
ToNumber(v) ==
    CASE v.t = "num" -> v.v
      [] v.t = "null" -> Zero
      [] v.t = "str" -> StrToNumber(v.s)
      [] OTHER -> NaN

PricePoint(t, p) == [timestamp |-> t, price |-> p]

\* v?.[i]
OptIndex(v, i) == IF PropThrows(v) THEN Undef ELSE Index(v, i)

\* item => ({ timestamp: item[0] * 1000, price: parseFloat(item[4]) })
MapBarMutant(item) ==
    IF PropThrows(item) THEN Thrown
    ELSE Returned(PricePoint(Mul(ToNumber(Index(item, 0)), Num(1000)),
                             ParseFloat(Index(item, 3))))

MapBar(item) ==
    IF PropThrows(item) THEN Thrown
    ELSE Returned(PricePoint(Mul(ToNumber(Index(item, 0)), Num(1000)),
                             ParseFloat(Index(item, 4))))

\* ohlcvList.map(...): raises as soon as one element raises
RECURSIVE MapBars(_)
MapBars(a) ==
    IF a = <<>> THEN Returned(<<>>)
    ELSE LET h == MapBar(Head(a))
             t == MapBars(Tail(a))
         IN  IF h.thrown \/ t.thrown THEN Thrown
             ELSE Returned(<<h.value>> \o t.value)

\* (a, b) => a.timestamp - b.timestamp
ComparePointsMutant(a, b) == Sub(b.timestamp, a.timestamp)

ComparePoints(a, b) == Sub(a.timestamp, b.timestamp)

\* Array.prototype.sort is stable: an element goes behind every element that
\* does not compare greater than it
RECURSIVE InsertSorted(_, _)
InsertSorted(p, s) ==
    IF s = <<>> THEN <<p>>
    ELSE IF Positive(ComparePoints(Head(s), p)) THEN <<p>> \o s
    ELSE <<Head(s)>> \o InsertSorted(p, Tail(s))

RECURSIVE SortPoints(_)
SortPoints(s) ==
    IF s = <<>> THEN <<>>
    ELSE InsertSorted(s[Len(s)], SortPoints(SubSeq(s, 1, Len(s) - 1)))

\* api.ts 137-140: ohlcvList.map(...).sort(...)
MapAndSort(ohlcvList) ==
    IF ohlcvList.t # "arr" THEN Thrown    \* .map is not a function
    ELSE LET m == MapBars(ohlcvList.a)
         IN  IF m.thrown THEN Thrown ELSE Returned(SortPoints(m.value))

\* api.ts 51-57 and part_000 65-72: no guard on the shape of the payload
NormalizeV1(json) ==
    IF PropThrows(json) THEN Thrown
    ELSE IF PropThrows(Prop(json, "data")) THEN Thrown
    ELSE IF PropThrows(Prop(Prop(json, "data"), "attributes")) THEN Thrown
    ELSE MapAndSort(Prop(Prop(Prop(json, "data"), "attributes"), "ohlcv_list"))

\* api.ts 131-140
NormalizeV2(json) ==
    IF PropThrows(json) THEN Thrown
    ELSE LET ohlcvList == OptProp(OptProp(Prop(json, "data"), "attributes"), "ohlcv_list")
         IN  IF ~Truthy(ohlcvList) \/ ohlcvList.t # "arr" THEN Returned(<<>>)
             ELSE MapAndSort(ohlcvList)

\* api.ts 42-46, 114-121 and part_000 51-55: the address of data[0]
NoPool == [found |-> FALSE]

ResolvePoolMutant(json) ==
    IF PropThrows(json) THEN Thrown
    ELSE LET topPool == OptIndex(Prop(json, "data"), 1)
         IN  IF ~Truthy(topPool) THEN Returned(NoPool)
             ELSE IF PropThrows(Prop(topPool, "attributes")) THEN Thrown
             ELSE Returned([found |-> TRUE,
                            address |-> Prop(Prop(topPool, "attributes"), "address")])

ResolvePool(json) ==
    IF PropThrows(json) THEN Thrown
    ELSE LET topPool == OptIndex(Prop(json, "data"), 0)
         IN  IF ~Truthy(topPool) THEN Returned(NoPool)
             ELSE IF PropThrows(Prop(topPool, "attributes")) THEN Thrown
             ELSE Returned([found |-> TRUE,
                            address |-> Prop(Prop(topPool, "attributes"), "address")])

\* a response that is not OK: api.ts 40/49 return [], api.ts 112/129 raise
NotOk(v) == IF v = "gecko" THEN Thrown ELSE Returned(<<>>)

\* the catch block of fetchHistoricalData
CatchHistMutant(r) == IF r.thrown THEN Rejected ELSE Fulfilled(r.value)

CatchHist(r) == IF r.thrown THEN Fulfilled(<<>>) ELSE Fulfilled(r.value)

(***************************************************************************)
(* What the pool indexer can answer.                                       *)
(***************************************************************************)
MaxBars == 3

Timestamps == {1, 2, 3}

CloseVals == { JNum(Num(2)), JNum(Num(-1)), Str(<<"a", "b", "c">>), Undef }

\* [ts, open, high, low, close, volume]; a bar cut short has no close
Bar(ts, o, h, l, c, v) ==
    IF c.t = "undef" THEN Arr(<<JNum(Num(ts)), JNum(Num(o)), JNum(Num(h)), JNum(Num(l))>>)
    ELSE Arr(<<JNum(Num(ts)), JNum(Num(o)), JNum(Num(h)), JNum(Num(l)), c, JNum(Num(v))>>)

Bars == { Bar(ts, 7, 9, 5, c, 11) : ts \in Timestamps, c \in CloseVals } \cup {Null}

BarLists == UNION { [1..n -> Bars] : n \in 0..MaxBars }

OhlcvPayloads ==
    { [shape |-> s] : s \in {"jsonNull", "noData", "noAttributes", "noList", "notAList"} }
    \cup { [shape |-> "list", bars |-> b] : b \in BarLists }

OhlcvJson(p) ==
    CASE p.shape = "jsonNull" -> Null
      [] p.shape = "noData" -> Obj([errors |-> Str(<<"0">>)])
      [] p.shape = "noAttributes" -> Obj([data |-> Obj([id |-> Str(<<"0">>)])])
      [] p.shape = "noList" ->
            Obj([data |-> Obj([attributes |-> Obj([id |-> Str(<<"0">>)])])])
      [] p.shape = "notAList" ->
            Obj([data |-> Obj([attributes |-> Obj([ohlcv_list |-> Str(<<"a", "b", "c">>)])])])
      [] p.shape = "list" ->
            Obj([data |-> Obj([attributes |-> Obj([ohlcv_list |-> Arr(p.bars)])])])

Pool(a) == Obj([attributes |-> Obj([address |-> Str(<<a>>)])])

PoolLists ==
    { <<>>, <<Pool("A")>>, <<Pool("B"), Pool("A")>>, <<Obj([id |-> Str(<<"0">>)])>> }

PoolsPayloads ==
    { [shape |-> s] : s \in {"jsonNull", "noData"} }
    \cup { [shape |-> "list", pools |-> l] : l \in PoolLists }

PoolsJson(p) ==
    CASE p.shape = "jsonNull" -> Null
      [] p.shape = "noData" -> Obj([errors |-> Str(<<"0">>)])
      [] p.shape = "list" -> Obj([data |-> Arr(p.pools)])

\* api.ts 42-46: what the pools body resolves to
PoolOf(p) == IF p.shape = "unparseable" THEN Thrown ELSE ResolvePool(PoolsJson(p))

\* api.ts 51-57 / 131-140: what the OHLCV body is normalised to
Normalize(v, p) ==
    IF p.shape = "unparseable" THEN Thrown
    ELSE IF v = "gecko" THEN NormalizeV2(OhlcvJson(p))
    ELSE NormalizeV1(OhlcvJson(p))

\* the whole of fetchHistoricalData as a function of what the upstream did: up
\* holds the outcome and body of the pools request and of the OHLCV request
FetchHistoricalData(v, up) ==
    IF up.pools # "ok" THEN CatchHist(IF up.pools = "reject" THEN Thrown ELSE NotOk(v))
    ELSE LET r == PoolOf(up.poolsBody)
         IN  IF r.thrown THEN CatchHist(Thrown)
             ELSE IF ~r.value.found THEN CatchHist(Returned(<<>>))
             ELSE IF up.ohlcv # "ok"
                  THEN CatchHist(IF up.ohlcv = "reject" THEN Thrown ELSE NotOk(v))
             ELSE CatchHist(Normalize(v, up.ohlcvBody))

\* the caller invokes fetchHistoricalData: request the token's pools
HistCall ==
    /\ histPc = "idle"
    /\ histPc' = "pools"
    /\ poolsRequests' = poolsRequests + 1
    /\ histResult' = Pending
    /\ UNCHANGED <<ohlcvRequests, poolsResp, poolsPayload, ohlcvTarget, ohlcvResp, ohlcvPayload,
                 apiVariant, priceVars, appVars>>

\* await fetch(poolsUrl) settles
HistPoolsSettles ==
    /\ histPc = "pools"
    /\ \E r \in FetchOutcomes :
          /\ poolsResp' = r
          /\ IF r = "ok"
                THEN /\ histPc' = "poolsJson"
                     /\ UNCHANGED histResult
                ELSE /\ histPc' = "done"
                     /\ histResult' = CatchHist(IF r = "reject" THEN Thrown ELSE NotOk(apiVariant))
    /\ UNCHANGED <<poolsRequests, ohlcvRequests, poolsPayload, ohlcvTarget, ohlcvResp, ohlcvPayload,
                 apiVariant, priceVars, appVars>>

\* await poolsResponse.json() settles; with a pool found, request its OHLCV series
HistPoolsJsonSettles ==
    /\ histPc = "poolsJson"
    /\ \E p \in PoolsPayloads \cup {Unparseable} :
          LET r == PoolOf(p)
          IN  /\ poolsPayload' = p
              /\ IF r.thrown \/ ~r.value.found
                    THEN /\ histPc' = "done"
                         /\ histResult' = CatchHist(IF r.thrown THEN Thrown ELSE Returned(<<>>))
                         /\ UNCHANGED <<ohlcvRequests, ohlcvTarget>>
                    ELSE /\ histPc' = "ohlcv"
                         /\ ohlcvTarget' = r.value.address
                         /\ ohlcvRequests' = ohlcvRequests + 1
                         /\ UNCHANGED histResult
    /\ UNCHANGED <<poolsRequests, poolsResp, ohlcvResp, ohlcvPayload,
                 apiVariant, priceVars, appVars>>

\* await fetch(historyUrl) settles
HistOhlcvSettles ==
    /\ histPc = "ohlcv"
    /\ \E r \in FetchOutcomes :
          /\ ohlcvResp' = r
          /\ IF r = "ok"
                THEN /\ histPc' = "ohlcvJson"
                     /\ UNCHANGED histResult
                ELSE /\ histPc' = "done"
                     /\ histResult' = CatchHist(IF r = "reject" THEN Thrown ELSE NotOk(apiVariant))
    /\ UNCHANGED <<poolsRequests, ohlcvRequests, poolsResp, poolsPayload, ohlcvTarget, ohlcvPayload,
                 apiVariant, priceVars, appVars>>

\* await response.json() settles; map and sort the bars
HistOhlcvJsonSettlesOn(bodies) ==
    /\ histPc = "ohlcvJson"
    /\ \E p \in bodies :
          /\ ohlcvPayload' = p
          /\ histResult' = CatchHist(Normalize(apiVariant, p))
    /\ histPc' = "done"
    /\ UNCHANGED <<poolsRequests, ohlcvRequests, poolsResp, poolsPayload, ohlcvTarget, ohlcvResp,
                 apiVariant, priceVars, appVars>>

HistOhlcvJsonSettles == HistOhlcvJsonSettlesOn(OhlcvPayloads \cup {Unparseable})

\* the caller invokes fetchHistoricalData again (a manual refresh)
HistAgain ==
    /\ histPc = "done"
    /\ histPc' = "idle"
    /\ poolsRequests' = 0
    /\ ohlcvRequests' = 0
    /\ poolsResp' = "none"
    /\ poolsPayload' = NoPayload
    /\ ohlcvTarget' = Undef
    /\ ohlcvResp' = "none"
    /\ ohlcvPayload' = NoPayload
    /\ histResult' = Pending
    /\ UNCHANGED <<apiVariant, priceVars, appVars>>

HistInit ==
    /\ histPc = "idle"
    /\ poolsRequests = 0
    /\ ohlcvRequests = 0
    /\ poolsResp = "none"
    /\ poolsPayload = NoPayload
    /\ ohlcvTarget = Undef
    /\ ohlcvResp = "none"
    /\ ohlcvPayload = NoPayload
    /\ histResult = Pending

(***************************************************************************)
(* The gateway specifications: one deployed revision of api.ts, called by  *)
(* the application as often as it likes.                                   *)
(***************************************************************************)
MaxRefreshes == 3

\* the invocations of loadData / syncMarketData, in the order they start
Slots == 1..MaxRefreshes

NoPriceUpstream == [resp |-> "none", body |-> NoPayload]

NoHistUpstream ==
    [pools |-> "none", poolsBody |-> NoPayload, ohlcv |-> "none", ohlcvBody |-> NoPayload]

\* useState(true), useState(false), useState(null); loadData not yet invoked
RefreshIdle ==
    /\ loading = TRUE
    /\ refreshing = FALSE
    /\ error = Null
    /\ refreshPc = [r \in Slots |-> "idle"]
    /\ priceUpstream = [r \in Slots |-> NoPriceUpstream]
    /\ histUpstream = [r \in Slots |-> NoHistUpstream]
    /\ pricePromise = [r \in Slots |-> Pending]
    /\ histPromise = [r \in Slots |-> Pending]
    /\ lastCompleted = 0

AppIdle ==
    /\ RefreshIdle
    /\ appVariant = "none"
    /\ investment = Num(1000)
    /\ annualYield = [root |-> Num(1)]
    /\ startTimestamp = Num(0)
    /\ stats = Null
    /\ historicalPrices = <<>>
    /\ results = <<>>
    /\ summary = Null

InitPrice == apiVariant \in ApiVariants /\ PriceInit /\ HistInit /\ AppIdle

NextPrice ==
    \/ PriceCall
    \/ PriceFetchSettles
    \/ PriceJsonSettles
    \/ PriceAgain

SpecPrice == InitPrice /\ [][NextPrice]_vars

InitHist == apiVariant \in ApiVariants /\ PriceInit /\ HistInit /\ AppIdle

NextHist ==
    \/ HistCall
    \/ HistPoolsSettles
    \/ HistPoolsJsonSettles
    \/ HistOhlcvSettles
    \/ HistOhlcvJsonSettles
    \/ HistAgain

SpecHist == InitHist /\ [][NextHist]_vars

(***************************************************************************)
(* Both fetches of one refresh in flight together, as Promise.all starts   *)
(* them (App.tsx 25-28); the bodies are one of each shape.                 *)
(***************************************************************************)
BriefStatsPayloads ==
    { p \in StatsPayloads :
        p.shape = "full" =>
            /\ p.price \in {Undef, Str(<<"1", ".", "5">>)}
            /\ p.change = p.price /\ p.fdv = p.price /\ p.vol = p.price }
    \cup {Unparseable}

BriefOhlcvPayloads ==
    { p \in OhlcvPayloads : p.shape = "list" => Len(p.bars) <= 1 } \cup {Unparseable}

PriceJsonSettlesBrief == PriceJsonSettlesOn(BriefStatsPayloads)

HistOhlcvJsonSettlesBrief == HistOhlcvJsonSettlesOn(BriefOhlcvPayloads)

InitGateway == apiVariant \in ApiVariants /\ PriceInit /\ HistInit /\ AppIdle

NextGateway ==
    \/ PriceCall
    \/ PriceFetchSettles
    \/ PriceJsonSettlesBrief
    \/ PriceAgain
    \/ HistCall
    \/ HistPoolsSettles
    \/ HistPoolsJsonSettles
    \/ HistOhlcvSettles
    \/ HistOhlcvJsonSettlesBrief
    \/ HistAgain

SpecGateway == InitGateway /\ [][NextGateway]_vars

(***************************************************************************)
(* Properties of the gateway.                                              *)
(***************************************************************************)
Range(f) == { f[i] : i \in DOMAIN f }

BagOfSeq(f) == [ x \in Range(f) |-> Cardinality({ i \in DOMAIN f : f[i] = x }) ]

\* x <= y
LessEq(x, y) == ~IsNaN(x) /\ ~IsNaN(y) /\ (x = y \/ Positive(Sub(y, x)))

StatsFields == {"currentPrice", "priceChange24h", "marketCap", "volume24h"}

\* the upstream request failed: transport error, non-OK status, unparseable
\* body, or a body without the data object
PriceFailed ==
    \/ priceResp \in {"reject", "notok"}
    \/ pricePayload.shape \in {"unparseable", "jsonNull", "noData", "nullData"}

\* C1: fetchCurrentPrice never rejects, and on every failed outcome of the
\* upstream request it resolves to the TokenStats whose four fields are 0.
C1_PriceNeverThrows ==
    /\ priceResult.status # "rejected"
    /\ pricePc = "done" =>
          /\ priceResult.status = "fulfilled"
          /\ PriceFailed => priceResult.value = ZeroStats

C1_Witness ==
    /\ apiVariant = "okx"
    /\ pricePc = "done"
    /\ priceResp = "ok"
    /\ pricePayload.shape = "unparseable"
    /\ priceResult = Fulfilled(ZeroStats)

\* a field the upstream left out or filled with text that is no number
Unusable(f) == IsNaN(ParseFloat(f))

\* C2: every field of every TokenStats returned is a number that is not NaN,
\* and a field the successful response leaves out or fills with a non-numeric
\* string comes back as 0.
C2_FieldsNeverNaN ==
    (pricePc = "done" /\ priceResult.status = "fulfilled") =>
        /\ \A k \in StatsFields : IsFinite(priceResult.value[k])
        /\ (priceResp = "ok" /\ pricePayload.shape = "full") =>
              /\ Unusable(pricePayload.price) => priceResult.value.currentPrice = Zero
              /\ Unusable(pricePayload.change) => priceResult.value.priceChange24h = Zero
              /\ Unusable(pricePayload.fdv) => priceResult.value.marketCap = Zero
              /\ Unusable(pricePayload.vol) => priceResult.value.volume24h = Zero

\* one of the failures the historical fetch absorbs
HistFailed ==
    \/ poolsResp \in {"reject", "notok"}
    \/ poolsPayload.shape \in {"unparseable", "jsonNull", "noData"}
    \/ (poolsPayload.shape = "list" /\ poolsPayload.pools = <<>>)
    \/ ohlcvResp \in {"reject", "notok"}
    \/ ohlcvPayload.shape \in
          {"unparseable", "jsonNull", "noData", "noAttributes", "noList", "notAList"}

\* C3: fetchHistoricalData never rejects, and resolves to the empty list when
\* the pools request fails or is not OK, the pools list is missing or empty,
\* the OHLCV request fails or is not OK, the OHLCV payload lacks data,
\* attributes or ohlcv_list, or ohlcv_list is not a list.
C3_HistEmptyOnFailure ==
    /\ histResult.status # "rejected"
    /\ histPc = "done" =>
          /\ histResult.status = "fulfilled"
          /\ HistFailed => histResult.value = <<>>

C3_Witness ==
    /\ apiVariant = "okx"
    /\ histPc = "done"
    /\ ohlcvResp = "ok"
    /\ ohlcvPayload.shape = "noList"
    /\ histResult = Fulfilled(<<>>)

\* the OHLCV stage delivered a list of bars and the mapping raised on none
HistSucceeded ==
    /\ histPc = "done"
    /\ histResult.status = "fulfilled"
    /\ ohlcvResp = "ok"
    /\ ohlcvPayload.shape = "list"
    /\ \A i \in DOMAIN ohlcvPayload.bars : ohlcvPayload.bars[i].t = "arr"

\* C4: whatever the order of the upstream bars, the returned list is
\* non-decreasing by timestamp.
C4_SortedByTimestamp ==
    (histPc = "done" /\ histResult.status = "fulfilled") =>
        \A i, j \in DOMAIN histResult.value :
            i < j => LessEq(histResult.value[i].timestamp, histResult.value[j].timestamp)

\* three bars arriving neither ascending nor descending, one timestamp twice
C4_Witness ==
    /\ HistSucceeded
    /\ Len(ohlcvPayload.bars) = 3
    /\ ToNumber(Index(ohlcvPayload.bars[1], 0)) = Num(2)
    /\ ToNumber(Index(ohlcvPayload.bars[2], 0)) = Num(1)
    /\ ToNumber(Index(ohlcvPayload.bars[3], 0)) = Num(2)
    /\ Len(histResult.value) = 3

\* the same bar with other open, high, low and volume
WithAux(bar, a) ==
    IF Len(bar.a) < 5 THEN Arr(<<bar.a[1], JNum(Num(a[1])), JNum(Num(a[2])), JNum(Num(a[3]))>>)
    ELSE Arr(<<bar.a[1], JNum(Num(a[1])), JNum(Num(a[2])), JNum(Num(a[3])), bar.a[5],
               JNum(Num(a[4]))>>)

AuxChoices == { <<7, 9, 5, 11>>, <<1, 2, 3, 4>>, <<2, 2, 2, 2>> }

\* C5: on success the result holds exactly one point per upstream bar, a
\* permutation of the bars mapped to (timestamp = ts * 1000, price = the close
\* at index 4 as parseFloat reads it), and it does not depend on a bar's open,
\* high, low or volume.
C5_OnePointPerBar ==
    HistSucceeded =>
        LET bars == ohlcvPayload.bars
            mapped == [ i \in DOMAIN bars |->
                          PricePoint(Mul(bars[i].a[1].v, Num(1000)), ParseFloat(Index(bars[i], 4))) ]
        IN  /\ Len(histResult.value) = Len(bars)
            /\ BagOfSeq(histResult.value) = BagOfSeq(mapped)
            /\ \A i \in DOMAIN bars :
                  Index(bars[i], 4).t = "num" =>
                      \E k \in DOMAIN histResult.value :
                          histResult.value[k].price = Index(bars[i], 4).v
            /\ \A a \in AuxChoices :
                  CatchHist(Normalize(apiVariant,
                      [shape |-> "list", bars |-> [ i \in DOMAIN bars |-> WithAux(bars[i], a) ]]))
                  = histResult

C5_Witness ==
    /\ HistSucceeded
    /\ Len(ohlcvPayload.bars) = 3
    /\ Len(histResult.value) = 3
    /\ histResult.value[1].price = Num(2)
    /\ histResult.value[3].price = Num(-1)

\* C6: every returned PricePoint has a price that is a number >= 0, also for
\* bars whose close is absent, non-numeric or negative.
C6_PriceNonNegative ==
    (histPc = "done" /\ histResult.status = "fulfilled") =>
        \A i \in DOMAIN histResult.value : NonNegative(histResult.value[i].price)

\* C7: for the same upstream outcome the OKX-backed and the
\* GeckoTerminal-backed fetchCurrentPrice return the same TokenStats.
C7_ProvidersEquivalent ==
    pricePc = "done" =>
        \A w \in ApiVariants : FetchCurrentPrice(w, priceResp, pricePayload) = priceResult

\* C8: one invocation of fetchCurrentPrice issues exactly one request, one
\* invocation of fetchHistoricalData at most one pools request and at most one
\* OHLCV request; no request is issued again after it failed.
C8_NoRetry ==
    /\ priceRequests <= 1
    /\ poolsRequests <= 1
    /\ ohlcvRequests <= 1
    /\ pricePc # "idle" => priceRequests = 1
    /\ histPc # "idle" => poolsRequests = 1
    /\ (histPc = "done" /\ (poolsResp # "ok" \/ PoolOf(poolsPayload).thrown
                            \/ ~PoolOf(poolsPayload).value.found)) => ohlcvRequests = 0

C8_Witness ==
    /\ pricePc = "done"
    /\ priceResp = "reject"
    /\ priceRequests = 1
    /\ histPc = "done"
    /\ ohlcvResp = "notok"
    /\ poolsRequests = 1
    /\ ohlcvRequests = 1

(***************************************************************************)
(* App.tsx: the projection engine.  Four revisions of the component:       *)
(*   "appA"  App.tsx 1-333      "appB"  App.tsx 335-668                    *)
(*   "app1"  unnamed/part_001   "app30" services/api.ts 149-424            *)
(*                                                                         *)
(* Math.pow(1 + annualYield / 100, 1 / 365) is irrational for almost every *)
(* yield.  The yields of the model are those whose daily growth factor is  *)
(* a rational q, annualYield = 100 * (q^365 - 1); the state keeps q as     *)
(* annualYield.root.  root = 1 is the yield 0.                             *)
(***************************************************************************)
AppVariants == {"appA", "appB", "app1", "app30"}

MaxPoints == 2

FallbackWindow == 30

DailyRoots == { Num(1), Num(2) }

AnnualYields == { [root |-> q] : q \in DailyRoots }

Investments == { Num(0), Num(100), Num(-50) }

SeriesTimestamps == { Num(1000), Num(2000) }

Starts == { Num(1000), Num(2000), Num(3000) }

SeriesPrices == { Num(0), Num(10), Num(20), NaN }

\* what fetchCurrentPrice can have returned
StatsVals == { ZeroStats, TokenStats(Num(5), Zero, Zero, Zero) }

\* what fetchHistoricalData can have returned: sorted by timestamp
SeriesPoints == { PricePoint(t, p) : t \in SeriesTimestamps, p \in SeriesPrices }

Series ==
    { h \in UNION { [1..n -> SeriesPoints] : n \in 0..MaxPoints } :
        \A i, j \in DOMAIN h : i < j => LessEq(h[i].timestamp, h[j].timestamp) }

\* the histories a later refresh brings
RefreshedSeries ==
    { <<>>, <<PricePoint(Num(1000), Num(10))>>, <<PricePoint(Num(2000), Num(0))>> }

\* x + y
Add(x, y) == Sub(x, Sub(Zero, y))

\* x >= y
Geq(x, y) == LessEq(y, x)

\* Math.pow(x, k) for a whole k >= 0
RECURSIVE PowN(_, _)
PowN(x, k) == IF k = 0 THEN Num(1) ELSE Mul(x, PowN(x, k - 1))

\* Math.pow(1 + annualYield / 100, 1 / 365) - 1
DailyYieldRate(y) == Sub(y.root, Num(1))

\* historicalPrices.filter(p => p.timestamp >= startTimestamp)
FilterFromMutant(prices, start) ==
    SelectSeq(prices, LAMBDA p : Positive(Sub(p.timestamp, start)))

FilterFrom(prices, start) == SelectSeq(prices, LAMBDA p : Geq(p.timestamp, start))

\* historicalPrices.slice(-30)
SliceLast(prices, k) ==
    IF Len(prices) <= k THEN prices ELSE SubSeq(prices, Len(prices) - k + 1, Len(prices))

\* what the revision projects when no point is on or after the start date
Fallback(v, prices) ==
    CASE v = "appA" -> <<>>
      [] v = "app30" -> SliceLast(prices, FallbackWindow)
      [] OTHER -> prices

\* a || b || 0 on numbers; b is undefined when stats is null
FirstTruthy(a, st) ==
    IF ~IsNaN(a) /\ ~IsZero(a) THEN a
    ELSE IF st = Null THEN Zero
    ELSE OrZero(st.currentPrice)

\* the price the principal is converted at
BasePrice(v, filtered, st) ==
    IF v = "appA" THEN filtered[1].price ELSE FirstTruthy(filtered[1].price, st)

HasTokenBalance(v) == v \in {"appA", "app30"}

\* the body of relevantPrices.map((point, index) => ...); date stands for the
\* instant the two date labels are formatted from
PointOfFlatMutant(v, point, index, initialTokens, rate) ==
    IF HasTokenBalance(v)
    THEN [date |-> point.timestamp, price |-> point.price,
          tokenBalance |-> initialTokens,
          usdValue |-> Mul(initialTokens, point.price),
          multiplier |-> Div(initialTokens, initialTokens)]
    ELSE [date |-> point.timestamp, price |-> point.price,
          usdValue |-> Mul(initialTokens, point.price),
          multiplier |-> Div(initialTokens, initialTokens)]

PointOfMutant(v, point, index, initialTokens, rate) ==
    LET currentTokens == Mul(initialTokens, PowN(Add(Num(1), rate), index))
    IN  IF HasTokenBalance(v)
        THEN [date |-> point.timestamp, price |-> point.price,
              tokenBalance |-> currentTokens,
              usdValue |-> Mul(initialTokens, point.price),
              multiplier |-> Div(currentTokens, initialTokens)]
        ELSE [date |-> point.timestamp, price |-> point.price,
              usdValue |-> Mul(initialTokens, point.price),
              multiplier |-> Div(currentTokens, initialTokens)]

PointOfCalendarMutant(v, point, index, initialTokens, rate) ==
    LET currentTokens ==
            Mul(initialTokens, PowN(Add(Num(1), rate), point.timestamp.n \div 1000))
    IN  IF HasTokenBalance(v)
        THEN [date |-> point.timestamp, price |-> point.price,
              tokenBalance |-> currentTokens,
              usdValue |-> Mul(currentTokens, point.price),
              multiplier |-> Div(currentTokens, initialTokens)]
        ELSE [date |-> point.timestamp, price |-> point.price,
              usdValue |-> Mul(currentTokens, point.price),
              multiplier |-> Div(currentTokens, initialTokens)]

PointOf(v, point, index, initialTokens, rate) ==
    LET currentTokens == Mul(initialTokens, PowN(Add(Num(1), rate), index))
    IN  IF HasTokenBalance(v)
        THEN [date |-> point.timestamp, price |-> point.price,
              tokenBalance |-> currentTokens,
              usdValue |-> Mul(currentTokens, point.price),
              multiplier |-> Div(currentTokens, initialTokens)]
        ELSE [date |-> point.timestamp, price |-> point.price,
              usdValue |-> Mul(currentTokens, point.price),
              multiplier |-> Div(currentTokens, initialTokens)]

\* the results memo
Results(v, prices, inv, start, rate, st) ==
    IF Len(prices) = 0 THEN <<>>
    ELSE LET hit == FilterFrom(prices, start)
             filtered == IF Len(hit) = 0 THEN Fallback(v, prices) ELSE hit
         IN  IF Len(filtered) = 0 THEN <<>>
             ELSE IF v # "appA" /\ IsZero(BasePrice(v, filtered, st)) THEN <<>>
             ELSE LET initialTokens == Div(inv, BasePrice(v, filtered, st))
                  IN  [ i \in 1..Len(filtered) |->
                          PointOf(v, filtered[i], i - 1, initialTokens, rate) ]

\* the object the summary memo builds from the last point
SummaryOf(v, last, inv, rate) ==
    CASE v \in {"appA", "app30"} ->
            [totalUsdValue |-> last.usdValue,
             totalTokens |-> last.tokenBalance,
             netProfitUsd |-> Sub(last.usdValue, inv),
             totalRoiPercent |-> Mul(Div(Sub(last.usdValue, inv), inv), Num(100)),
             multiplier |-> last.multiplier,
             dailyEst |-> Mul(last.usdValue, rate)]
      [] v = "appB" ->
            [totalValue |-> last.usdValue,
             profit |-> Sub(last.usdValue, inv),
             multiplier |-> last.multiplier,
             dailyEst |-> Mul(last.usdValue, rate)]
      [] v = "app1" ->
            [totalUsdValue |-> last.usdValue,
             netProfitUsd |-> Sub(last.usdValue, inv),
             multiplier |-> last.multiplier,
             dailyEst |-> Mul(last.usdValue, rate)]

\* the summary memo
SummaryMutant(v, res, inv, rate) ==
    IF Len(res) = 0
    THEN [totalUsdValue |-> Zero, netProfitUsd |-> Zero, multiplier |-> Num(1), dailyEst |-> Zero]
    ELSE SummaryOf(v, res[Len(res)], inv, rate)

Summary(v, res, inv, rate) ==
    IF Len(res) = 0 THEN Null ELSE SummaryOf(v, res[Len(res)], inv, rate)

\* the dependency list of the results memo: [historicalPrices, investment,
\* startDate, dailyYieldRate], and stats in the revisions that read it
ResultsDepsChangedMutant ==
    \/ historicalPrices' # historicalPrices
    \/ investment' # investment
    \/ startTimestamp' # startTimestamp
    \/ DailyYieldRate(annualYield') # DailyYieldRate(annualYield)

ResultsDepsChanged ==
    \/ historicalPrices' # historicalPrices
    \/ investment' # investment
    \/ startTimestamp' # startTimestamp
    \/ DailyYieldRate(annualYield') # DailyYieldRate(annualYield)
    \/ (appVariant # "appA" /\ stats' # stats)

\* the dependency list of the summary memo: [results, investment, dailyYieldRate]
SummaryDepsChanged ==
    \/ results' # results
    \/ investment' # investment
    \/ DailyYieldRate(annualYield') # DailyYieldRate(annualYield)

\* a render after a state change: a memo is recomputed from the new state when
\* one of its dependencies changed, and keeps its value otherwise
Rerender ==
    /\ results' = IF ResultsDepsChanged
                  THEN Results(appVariant, historicalPrices', investment', startTimestamp',
                               DailyYieldRate(annualYield'), stats')
                  ELSE results
    /\ summary' = IF SummaryDepsChanged
                  THEN Summary(appVariant, results', investment', DailyYieldRate(annualYield'))
                  ELSE summary

\* onChange of the investment field: setInvestment(Number(e.target.value))
SetInvestment ==
    /\ \E x \in Investments : investment' = x
    /\ UNCHANGED <<appVariant, annualYield, startTimestamp, stats, historicalPrices>>
    /\ Rerender
    /\ UNCHANGED <<apiVariant, priceVars, histVars, refreshVars>>

\* onChange of the yield field: setAnnualYield(Number(e.target.value))
SetAnnualYield ==
    /\ \E y \in AnnualYields : annualYield' = y
    /\ UNCHANGED <<appVariant, investment, startTimestamp, stats, historicalPrices>>
    /\ Rerender
    /\ UNCHANGED <<apiVariant, priceVars, histVars, refreshVars>>

\* onChange of the date field: setStartDate(e.target.value)
SetStartDate ==
    /\ \E t \in Starts : startTimestamp' = t
    /\ UNCHANGED <<appVariant, investment, annualYield, stats, historicalPrices>>
    /\ Rerender
    /\ UNCHANGED <<apiVariant, priceVars, histVars, refreshVars>>

\* a refresh completes: setStats(currentStats); setHistoricalPrices(history)
DataLoaded ==
    /\ \E st \in StatsVals, h \in RefreshedSeries :
          /\ stats' = st
          /\ historicalPrices' = h
    /\ UNCHANGED <<appVariant, investment, annualYield, startTimestamp>>
    /\ Rerender
    /\ UNCHANGED <<apiVariant, priceVars, histVars, refreshVars>>

\* any parameters, and the data of the refreshes so far: nothing before the
\* first refresh completes, stats and history together after it
InitProject ==
    /\ apiVariant = "gecko"
    /\ PriceInit
    /\ HistInit
    /\ RefreshIdle
    /\ appVariant \in AppVariants
    /\ investment \in Investments
    /\ annualYield \in AnnualYields
    /\ startTimestamp \in Starts
    /\ \/ stats = Null /\ historicalPrices = <<>>
       \/ stats \in StatsVals /\ historicalPrices \in Series
    /\ results = Results(appVariant, historicalPrices, investment, startTimestamp,
                         DailyYieldRate(annualYield), stats)
    /\ summary = Summary(appVariant, results, investment, DailyYieldRate(annualYield))

NextProject ==
    \/ SetInvestment
    \/ SetAnnualYield
    \/ SetStartDate
    \/ DataLoaded

SpecProject == InitProject /\ [][NextProject]_vars

(***************************************************************************)
(* Properties of the projection engine.                                    *)
(***************************************************************************)
\* C9: the projection of an empty price series is the empty point list and a
\* null summary, whatever the principal, yield, start date and fallback
\* price; and the summary is null exactly when the point list is empty.
C9_EmptySeriesEmptyProjection ==
    /\ historicalPrices = <<>> => (results = <<>> /\ summary = Null)
    /\ (summary = Null) <=> (results = <<>>)

C9_Witness ==
    /\ historicalPrices = <<>>
    /\ stats = TokenStats(Num(5), Zero, Zero, Zero)
    /\ investment = Num(100)
    /\ annualYield.root = Num(2)
    /\ results = <<>>
    /\ summary = Null

\* the series the engine is to project: the points on or after the start
\* date, or the whole series when there is none
FilteredSeries ==
    IF Len(FilterFrom(historicalPrices, startTimestamp)) = 0 THEN historicalPrices
    ELSE FilterFrom(historicalPrices, startTimestamp)

\* C10: when the first point of the filtered series has price 0 and the
\* fallback current price is 0 or stats are absent, the projection is empty,
\* so no point with a non-finite tokenBalance or usdValue comes out of a
\* division by a zero base price.
C10_ZeroBasePriceEmpty ==
    ( /\ Len(FilteredSeries) > 0
      /\ IsZero(FilteredSeries[1].price)
      /\ (stats = Null \/ IsZero(stats.currentPrice)) )
    => /\ results = <<>>
       /\ \A i \in DOMAIN results : IsFinite(results[i].usdValue)

\* the window the fallback policy projects when no point is on or after the
\* start date: the whole series, or its last FallbackWindow points
FallbackSeries ==
    IF appVariant = "app30" THEN SliceLast(historicalPrices, FallbackWindow)
    ELSE historicalPrices

\* C11: when the series is not empty, its base price is not zero and no point
\* has a timestamp on or after the start date, the projection is not empty: it
\* has one point for each point of the entire series (of the last
\* min(30, n) points under the 30-point policy).
C11_FallbackWhenFilterEmpty ==
    ( /\ Len(historicalPrices) > 0
      /\ Len(FilterFrom(historicalPrices, startTimestamp)) = 0
      /\ ~IsZero(FirstTruthy(FallbackSeries[1].price, stats)) )
    => /\ Len(results) > 0
       /\ Len(results) = Len(FallbackSeries)
       /\ \A i \in DOMAIN results :
             /\ results[i].date = FallbackSeries[i].timestamp
             /\ results[i].price = FallbackSeries[i].price

\* the net profit of a summary, whichever name the revision gives the field
NetProfit(s) == IF "netProfitUsd" \in DOMAIN s THEN s.netProfitUsd ELSE s.profit

\* the total value of a summary, whichever name the revision gives the field
TotalValue(s) == IF "totalUsdValue" \in DOMAIN s THEN s.totalUsdValue ELSE s.totalValue

\* series [(t0, 10), (t1, 20)], principal 100, annual yield 0, start date t0
WorkedExample ==
    /\ historicalPrices = <<PricePoint(Num(1000), Num(10)), PricePoint(Num(2000), Num(20))>>
    /\ investment = Num(100)
    /\ DailyYieldRate(annualYield) = Zero
    /\ startTimestamp = Num(1000)

\* C12: for the series [(t0, 10), (t1, 20)], principal 100, annual yield 0 and
\* start date t0 the projection has exactly two points, bought as 10 tokens,
\* worth 100 at point 0 and 200 at point 1, and the summary has
\* netProfitUsd = 100 and totalRoiPercent = 100.
C12_WorkedExample ==
    WorkedExample =>
        /\ Len(results) = 2
        /\ Div(results[1].usdValue, results[1].price) = Num(10)
        /\ HasTokenBalance(appVariant) => results[1].tokenBalance = Num(10)
        /\ results[1].usdValue = Num(100)
        /\ results[2].usdValue = Num(200)
        /\ summary # Null
        /\ NetProfit(summary) = Num(100)
        /\ "totalRoiPercent" \in DOMAIN summary
        /\ summary.totalRoiPercent = Num(100)

\* the base price the engine converted the principal at: the points of the
\* projection carry the prices of the series it was computed from
EngineBasePrice == BasePrice(appVariant, results, stats)

\* the token balance of point i (1-based): the tokenBalance field where the
\* revision publishes it, else the local the point was computed from
\* (compoundedTokens, currentTokens)
TokenBalanceAt(i) ==
    IF HasTokenBalance(appVariant) THEN results[i].tokenBalance
    ELSE Mul(Div(investment, EngineBasePrice),
             PowN(Add(Num(1), DailyYieldRate(annualYield)), i - 1))

\* C13: with annual yield 0 the daily rate is 0 and every point holds the
\* same token balance principal / basePrice, so every multiplier is 1 and
\* usdValue differs between points only through the price.
C13_ZeroYieldConstantBalance ==
    DailyYieldRate(annualYield) = Zero =>
        \A i \in DOMAIN results :
            /\ TokenBalanceAt(i) = Div(investment, EngineBasePrice)
            /\ results[i].multiplier = Num(1)
            /\ results[i].usdValue = Mul(Div(investment, EngineBasePrice), results[i].price)

\* C15: every point of every projection has usdValue = tokenBalance * price
\* and multiplier = tokenBalance / initialTokens, where initialTokens =
\* principal / basePrice and the balance of the point at index i is
\* initialTokens * (1 + r)^i.
C15_PointFormulas ==
    \A i \in DOMAIN results :
        LET initialTokens == Div(investment, EngineBasePrice)
        IN  /\ TokenBalanceAt(i) =
                  Mul(initialTokens, PowN(Add(Num(1), DailyYieldRate(annualYield)), i - 1))
            /\ results[i].usdValue = Mul(TokenBalanceAt(i), results[i].price)
            /\ results[i].multiplier = Div(TokenBalanceAt(i), initialTokens)

\* two points at 100 % a day: 10 tokens bought, 20 held and 400 USD at point 1
C15_Witness ==
    /\ appVariant = "appA"
    /\ investment = Num(100)
    /\ DailyYieldRate(annualYield) = Num(1)
    /\ Len(results) = 2
    /\ results[1].price = Num(10)
    /\ results[2].price = Num(20)
    /\ results[2].tokenBalance = Num(20)
    /\ results[2].usdValue = Num(400)
    /\ results[2].multiplier = Num(2)

\* x < y
Less(x, y) == Positive(Sub(y, x))

\* C16 as stated: when the daily rate is > 0 the token balance is strictly
\* increasing in the point index, for every principal, 0 and negative
\* principals included.
C16_StrictlyIncreasing ==
    Positive(DailyYieldRate(annualYield)) =>
        \A i, j \in DOMAIN results :
            i < j => Less(TokenBalanceAt(i), TokenBalanceAt(j))

\* C16 amended: when the daily rate is > 0 the token balance is strictly
\* increasing in the point index if the initial token balance
\* principal / basePrice is a positive finite number, and it is 0 at every
\* index if the initial balance is 0 (principal 0).
C16_IncreasingFromPositiveBalance ==
    Positive(DailyYieldRate(annualYield)) =>
        \A i, j \in DOMAIN results :
            i < j =>
                /\ (IsFinite(TokenBalanceAt(1)) /\ Positive(TokenBalanceAt(1)))
                      => Less(TokenBalanceAt(i), TokenBalanceAt(j))
                /\ IsZero(TokenBalanceAt(1))
                      => (TokenBalanceAt(i) = Zero /\ TokenBalanceAt(j) = Zero)

C16_Witness ==
    /\ appVariant = "app30"
    /\ Positive(DailyYieldRate(annualYield))
    /\ investment = Num(100)
    /\ Len(results) = 2
    /\ results[1].tokenBalance = Num(10)
    /\ results[2].tokenBalance = Num(20)

\* the projection the engine computes from the same inputs for principal 0
ZeroPrincipalResults ==
    Results(appVariant, historicalPrices, Zero, startTimestamp,
            DailyYieldRate(annualYield), stats)

\* C17: a negative or NaN principal is treated as 0: every point has the
\* tokenBalance and the usdValue it has for principal 0, so no negative or NaN
\* balance appears in the curve.
C17_NegativePrincipalAsZero ==
    ~NonNegative(investment) =>
        /\ Len(results) = Len(ZeroPrincipalResults)
        /\ \A i \in DOMAIN results :
              /\ results[i].usdValue = ZeroPrincipalResults[i].usdValue
              /\ TokenBalanceAt(i) =
                    Mul(Div(Zero, EngineBasePrice),
                        PowN(Add(Num(1), DailyYieldRate(annualYield)), i - 1))
              /\ NonNegative(TokenBalanceAt(i))

\* the projection with the price of point i replaced by p
WithPrice(res, i, p) == [res EXCEPT ![i].price = p]

\* C18: the summary is a function of the last projection point, the principal
\* and the daily rate: totalUsdValue = usdValue[last], netProfitUsd =
\* usdValue[last] - principal, totalRoiPercent = netProfitUsd / principal * 100,
\* multiplier = multiplier[last], dailyEstimate = usdValue[last] * r; another
\* price in an earlier point leaves the summary as it is.
C18_SummaryFromLastPoint ==
    Len(results) > 0 =>
        LET last == results[Len(results)]
            r == DailyYieldRate(annualYield)
        IN  /\ summary # Null
            /\ TotalValue(summary) = last.usdValue
            /\ NetProfit(summary) = Sub(last.usdValue, investment)
            /\ summary.multiplier = last.multiplier
            /\ summary.dailyEst = Mul(last.usdValue, r)
            /\ \A i \in 1..(Len(results) - 1) : \A p \in SeriesPrices :
                  Summary(appVariant, WithPrice(results, i, p), investment, r) = summary
            /\ "totalRoiPercent" \in DOMAIN summary
            /\ summary.totalRoiPercent =
                  Mul(Div(NetProfit(summary), investment), Num(100))

\* C19: with principal 0 and a base price that is not 0 the engine returns a
\* summary whose totalRoiPercent is the sentinel 0 or NaN, never a finite
\* number other than 0.
C19_ZeroPrincipalRoiSentinel ==
    (investment = Zero /\ Len(results) > 0 /\ ~IsZero(EngineBasePrice)) =>
        /\ summary # Null
        /\ "totalRoiPercent" \in DOMAIN summary
        /\ (IsNaN(summary.totalRoiPercent) \/ IsZero(summary.totalRoiPercent))

\* C20: the projection is a function of its inputs alone: whatever was
\* projected or refreshed before, the point list on display is the one the
\* engine computes from the current series, principal, annual yield, start date
\* and fallback price, and the summary the one it computes from that list.
C20_Deterministic ==
    /\ results = Results(appVariant, historicalPrices, investment, startTimestamp,
                         DailyYieldRate(annualYield), stats)
    /\ summary = Summary(appVariant, results, investment, DailyYieldRate(annualYield))

\* after a refresh: the series opens at price 0 and the fallback price 5 of
\* the refreshed stats is what the principal was converted at
C20_Witness ==
    /\ appVariant = "appB"
    /\ stats # Null
    /\ stats.currentPrice = Num(5)
    /\ historicalPrices = <<PricePoint(Num(2000), Num(0))>>
    /\ investment = Num(100)
    /\ Len(results) = 1
    /\ results[1].multiplier = Num(1)
    /\ summary # Null
    /\ summary.profit = Num(-100)

(***************************************************************************)
(* The refresh lifecycle: loadData (App.tsx 22-37, part_001 32-54, api.ts  *)
(* 179-202) and syncMarketData (App.tsx 361-383).  The mount effect        *)
(* invokes it once; afterwards the refresh button does.  An invocation     *)
(* starts both fetches, awaits Promise.all of them, stores what they gave  *)
(* and lowers the two indicators in its finally block.                     *)
(***************************************************************************)
\* what the token endpoint can do to one refresh: fail, or quote 1.5
PriceUpstreams ==
    { [resp |-> "reject", body |-> NoPayload],
      [resp |-> "ok",
       body |-> [shape |-> "full", price |-> Str(<<"1", ".", "5">>),
                 change |-> Str(<<"1", ".", "5">>), fdv |-> Str(<<"1", ".", "5">>),
                 vol |-> Str(<<"1", ".", "5">>)]] }

\* what the pool indexer can do to one refresh: refuse the pools request, or
\* name a pool and serve one bar of it
HistUpstreams ==
    { [pools |-> "notok", poolsBody |-> NoPayload, ohlcv |-> "none", ohlcvBody |-> NoPayload],
      [pools |-> "ok", poolsBody |-> [shape |-> "list", pools |-> <<Pool("A")>>],
       ohlcv |-> "ok",
       ohlcvBody |-> [shape |-> "list", bars |-> <<Bar(1, 7, 9, 5, JNum(Num(2)), 11)>>]] }

\* what fetchCurrentPrice and fetchHistoricalData resolve to, tabulated over
\* the upstream answers of a refresh
PriceOutcomes ==
    [ v \in ApiVariants, up \in PriceUpstreams |-> FetchCurrentPrice(v, up.resp, up.body) ]

HistOutcomes == [ v \in ApiVariants, up \in HistUpstreams |-> FetchHistoricalData(v, up) ]

\* Promise.all([p, h]): rejects as soon as one rejects, fulfils with both
\* values once both are fulfilled
PromiseAllMutant(p, h) ==
    IF p.status = "rejected" \/ h.status = "rejected" THEN Rejected
    ELSE IF p.status = "fulfilled"
         THEN Fulfilled(<<p.value, IF h.status = "fulfilled" THEN h.value ELSE <<>> >>)
    ELSE Pending

PromiseAll(p, h) ==
    IF p.status = "rejected" \/ h.status = "rejected" THEN Rejected
    ELSE IF p.status = "fulfilled" /\ h.status = "fulfilled"
         THEN Fulfilled(<<p.value, h.value>>)
    ELSE Pending

\* setStats(currentStats) in the try block of invocation r: skipped when the
\* await raised; no request id is kept and nothing is compared before storing
StatsAfterMutant(r, all) ==
    IF all.status = "fulfilled" /\ (\A q \in Slots : q > r => refreshPc[q] = "idle")
    THEN all.value[1]
    ELSE stats

StatsAfter(r, all) == IF all.status = "fulfilled" THEN all.value[1] ELSE stats

\* setHistoricalPrices(history) in the try block of invocation r
HistoryAfterMutant(r, all) ==
    IF all.status = "fulfilled" /\ Len(all.value[2]) > 0 THEN all.value[2]
    ELSE historicalPrices

HistoryAfter(r, all) == IF all.status = "fulfilled" THEN all.value[2] ELSE historicalPrices

\* the two messages setError is given, each as a string of one token
NoHistoryMessage == Str(<<"no history">>)

NetworkMessage == Str(<<"network">>)

\* the error message after the try and catch blocks: App.tsx 1-333 has no
\* error state; api.ts 191-195 sets or clears it, the others only set it
ErrorAfter(v, all) ==
    CASE v = "appA" -> error
      [] all.status = "rejected" -> NetworkMessage
      [] Len(all.value[2]) = 0 -> NoHistoryMessage
      [] v = "app30" -> Null
      [] OTHER -> error

\* the finally block: setLoading(false); setRefreshing(false)
FinallyMutant(all) == [loading |-> FALSE, refreshing |-> all.status = "fulfilled"]

Finally(all) == [loading |-> FALSE, refreshing |-> FALSE]

\* loadData runs up to its await: setRefreshing(true), setError(null) in
\* App.tsx 363 and part_001 34, and both fetches are started
LoadDataAt(r) ==
    /\ refreshPc[r] = "idle"
    /\ \A q \in Slots : q < r => refreshPc[q] # "idle"
    /\ refreshPc' = [refreshPc EXCEPT ![r] = "loading"]
    /\ refreshing' = TRUE
    /\ error' = IF appVariant \in {"appB", "app1"} THEN Null ELSE error
    /\ \E pu \in PriceUpstreams, hu \in HistUpstreams :
          /\ priceUpstream' = [priceUpstream EXCEPT ![r] = pu]
          /\ histUpstream' = [histUpstream EXCEPT ![r] = hu]
    /\ UNCHANGED <<loading, pricePromise, histPromise, lastCompleted>>
    /\ UNCHANGED <<appVariant, investment, annualYield, startTimestamp, stats, historicalPrices,
                   results, summary>>
    /\ UNCHANGED <<apiVariant, priceVars, histVars>>

\* useEffect(() => { loadData(); }, [tokenAddress]); the address never changes
Mount ==
    /\ \A q \in Slots : refreshPc[q] = "idle"
    /\ LoadDataAt(1)

\* onClick of the refresh button: rendered once loading is false (App.tsx 78),
\* disabled={refreshing} everywhere but in App.tsx 113-116
ClickRefresh ==
    /\ ~loading
    /\ appVariant = "appA" \/ ~refreshing
    /\ \E r \in Slots : r > 1 /\ LoadDataAt(r)

\* fetchCurrentPrice(tokenAddress) of invocation r settles
PriceSettlesAt(r) ==
    /\ refreshPc[r] = "loading"
    /\ pricePromise[r] = Pending
    /\ pricePromise' = [pricePromise EXCEPT ![r] = PriceOutcomes[apiVariant, priceUpstream[r]]]
    /\ UNCHANGED <<loading, refreshing, error, refreshPc, priceUpstream, histUpstream,
                   histPromise, lastCompleted>>
    /\ UNCHANGED <<appVariant, investment, annualYield, startTimestamp, stats, historicalPrices,
                   results, summary>>
    /\ UNCHANGED <<apiVariant, priceVars, histVars>>

PriceSettles == \E r \in Slots : PriceSettlesAt(r)

\* fetchHistoricalData(platform, tokenAddress) of invocation r settles
HistSettlesAt(r) ==
    /\ refreshPc[r] = "loading"
    /\ histPromise[r] = Pending
    /\ histPromise' = [histPromise EXCEPT ![r] = HistOutcomes[apiVariant, histUpstream[r]]]
    /\ UNCHANGED <<loading, refreshing, error, refreshPc, priceUpstream, histUpstream,
                   pricePromise, lastCompleted>>
    /\ UNCHANGED <<appVariant, investment, annualYield, startTimestamp, stats, historicalPrices,
                   results, summary>>
    /\ UNCHANGED <<apiVariant, priceVars, histVars>>

HistSettles == \E r \in Slots : HistSettlesAt(r)

\* the await of invocation r settles: the rest of try, or catch, then finally
RefreshCompletesAt(r) ==
    LET all == PromiseAll(pricePromise[r], histPromise[r])
    IN  /\ refreshPc[r] = "loading"
        /\ all.status # "pending"
        /\ stats' = StatsAfter(r, all)
        /\ historicalPrices' = HistoryAfter(r, all)
        /\ error' = ErrorAfter(appVariant, all)
        /\ loading' = Finally(all).loading
        /\ refreshing' = Finally(all).refreshing
        /\ refreshPc' = [refreshPc EXCEPT ![r] = "done"]
        /\ lastCompleted' = r
        /\ UNCHANGED <<priceUpstream, histUpstream, pricePromise, histPromise>>
        /\ UNCHANGED <<appVariant, investment, annualYield, startTimestamp>>
        /\ Rerender
        /\ UNCHANGED <<apiVariant, priceVars, histVars>>

RefreshCompletes == \E r \in Slots : RefreshCompletesAt(r)

InitRefresh ==
    /\ apiVariant = "gecko"
    /\ PriceInit
    /\ HistInit
    /\ RefreshIdle
    /\ appVariant \in AppVariants
    /\ investment = Num(1000)
    /\ annualYield = [root |-> Num(1)]
    /\ startTimestamp = Num(0)
    /\ stats = Null
    /\ historicalPrices = <<>>
    /\ results = <<>>
    /\ summary = Null

NextRefresh ==
    \/ Mount
    \/ ClickRefresh
    \/ PriceSettles
    \/ HistSettles
    \/ RefreshCompletes

SpecRefresh == InitRefresh /\ [][NextRefresh]_vars

\* the step of RefreshCompletesAt(r), told by the position of the invocation
Resumes(r) ==
    /\ refreshPc[r] = "loading"
    /\ PromiseAll(pricePromise[r], histPromise[r]).status # "pending"
    /\ refreshPc' = [refreshPc EXCEPT ![r] = "done"]

\* every request the browser sends settles, and a settled await resumes
SpecRefreshFair ==
    /\ SpecRefresh
    /\ \A r \in Slots :
          /\ WF_vars(PriceSettlesAt(r))
          /\ WF_vars(HistSettlesAt(r))
          /\ WF_refreshPc(Resumes(r))

(***************************************************************************)
(* Properties of the refresh lifecycle and of the engine it feeds.         *)
(***************************************************************************)
\* what the two fetches of invocation r resolve to, from the upstream alone
PriceOutcome(r) ==
    FetchCurrentPrice(apiVariant, priceUpstream[r].resp, priceUpstream[r].body)

HistOutcome(r) == FetchHistoricalData(apiVariant, histUpstream[r])

\* C21: the two fetches of one refresh run side by side and share nothing:
\* whatever state the other fetch is in, a settled fetch holds what its own
\* upstream answer determines, and the stats and history a refresh stores
\* are those two values whichever fetch settled first.
C21_FetchesIndependent ==
    /\ \A r \in Slots :
          /\ pricePromise[r] # Pending => pricePromise[r] = PriceOutcome(r)
          /\ histPromise[r] # Pending => histPromise[r] = HistOutcome(r)
    /\ lastCompleted # 0 =>
          /\ stats = PriceOutcome(lastCompleted).value
          /\ historicalPrices = HistOutcome(lastCompleted).value

\* the history fetch of the first refresh has settled with a bar while its
\* price fetch, which will fail, is still in flight
C21_Witness ==
    /\ refreshPc[1] = "loading"
    /\ pricePromise[1] = Pending
    /\ histPromise[1].status = "fulfilled"
    /\ Len(histPromise[1].value) > 0
    /\ priceUpstream[1].resp = "reject"

\* C22: a refresh in flight is never cancelled: it leaves the loading
\* position only by completing, and when it completes the stored stats and
\* history become its own, so the data displayed are those of the refresh
\* that completed last, even if it started first.
C22_LastCompleterWins ==
    /\ [](lastCompleted # 0 =>
            /\ refreshPc[lastCompleted] = "done"
            /\ stats = pricePromise[lastCompleted].value
            /\ historicalPrices = histPromise[lastCompleted].value)
    /\ [][\A r \in Slots :
            refreshPc[r] = "loading" =>
                \/ refreshPc'[r] = "loading"
                \/ /\ refreshPc'[r] = "done"
                   /\ lastCompleted' = r
                   /\ stats' = pricePromise[r].value
                   /\ historicalPrices' = histPromise[r].value]_vars

\* the second and third refresh overlapped, brought different stats, and the
\* second, started first, completed last: its stats are displayed
C22_Witness ==
    /\ refreshPc[2] = "done"
    /\ refreshPc[3] = "done"
    /\ lastCompleted = 2
    /\ pricePromise[2].value # pricePromise[3].value
    /\ stats = pricePromise[2].value

\* the pools request came back OK with a list that has a first pool
PoolListed ==
    /\ poolsResp = "ok"
    /\ poolsPayload.shape = "list"
    /\ Len(poolsPayload.pools) > 0

\* C23: an OHLCV request is issued only after the pools request returned OK
\* with a non-empty pool list, and it targets the address of data[0]; when
\* the pools request fails or lists no pool, the call ends without one.
C23_OhlcvAfterPool ==
    /\ ohlcvRequests > 0 =>
          /\ PoolListed
          /\ ohlcvTarget = Prop(Prop(poolsPayload.pools[1], "attributes"), "address")
    /\ (histPc = "done" /\ ~PoolListed) => ohlcvRequests = 0
    /\ poolsRequests = 0 => ohlcvRequests = 0

\* two pools were listed and the OHLCV request went to the first
C23_Witness ==
    /\ ohlcvRequests = 1
    /\ PoolListed
    /\ Len(poolsPayload.pools) = 2
    /\ ohlcvTarget = Str(<<"B">>)

\* the points of the stored series that are not earlier than the start date
OnOrAfterStart ==
    SelectSeq(historicalPrices, LAMBDA p : LessEq(startTimestamp, p.timestamp))

\* the projection is the points on or after the start date, one for one
ProjectsOnOrAfterStart ==
    /\ Len(results) = Len(OnOrAfterStart)
    /\ \A i \in DOMAIN results :
          /\ results[i].date = OnOrAfterStart[i].timestamp
          /\ results[i].price = OnOrAfterStart[i].price
          /\ LessEq(startTimestamp, results[i].date)

\* C24 as stated: when at least one point of the series is on or after the
\* start date, the projection has exactly one point for each such point, in
\* series order and with that point's price, and none earlier than the start.
C24_OnePointPerRelevantPoint == Len(OnOrAfterStart) > 0 => ProjectsOnOrAfterStart

\* C24 amended: the same, when in addition the base price (the price of the
\* first such point, or the current price of the stats when that is 0 or
\* NaN) is not zero.
C24_OnePointPerRelevantPointPriced ==
    ( /\ Len(OnOrAfterStart) > 0
      /\ ~IsZero(FirstTruthy(OnOrAfterStart[1].price, stats)) )
    => ProjectsOnOrAfterStart

\* of two stored points only the second is on or after the start date, and
\* the projection is that one point
C24_Witness ==
    /\ Len(historicalPrices) = 2
    /\ Len(OnOrAfterStart) = 1
    /\ ~IsZero(FirstTruthy(OnOrAfterStart[1].price, stats))
    /\ Len(results) = 1
    /\ results[1].price = historicalPrices[2].price

\* the window the revision projects: the points on or after the start date,
\* or its fallback window when there is none
ProjectedSeries ==
    IF Len(FilterFrom(historicalPrices, startTimestamp)) = 0
    THEN Fallback(appVariant, historicalPrices)
    ELSE FilterFrom(historicalPrices, startTimestamp)

\* C25: the base price is the price of the first projected point when that is
\* not zero, and the current price of the last fetched stats otherwise; when
\* the base price is not zero the projection is not empty and every point of
\* it is computed from initialTokens = principal / base price.
C25_BasePriceFallsBackToStats ==
    LET base == FirstTruthy(ProjectedSeries[1].price, stats)
    IN  ( Len(ProjectedSeries) > 0 /\ ~IsZero(base) )
        => /\ Len(results) = Len(ProjectedSeries)
           /\ \A i \in DOMAIN results :
                 results[i] = PointOf(appVariant, ProjectedSeries[i], i - 1,
                                      Div(investment, base), DailyYieldRate(annualYield))

\* the window projected of another series under the same start date
WindowOf(prices) ==
    IF Len(FilterFrom(prices, startTimestamp)) = 0 THEN Fallback(appVariant, prices)
    ELSE FilterFrom(prices, startTimestamp)

\* the series s moved to the instant t, its prices after the first set to p
Retimed(s, t, p) ==
    [ i \in 1..Len(s) |-> PricePoint(t, IF i = 1 THEN s[i].price ELSE p) ]

C27_ErrorTracksLastRefresh ==
    [][\A r \in Slots :
          (refreshPc[r] = "loading" /\ refreshPc'[r] = "done") =>
              IF Len(histPromise[r].value) = 0 THEN error' # Null ELSE error' = Null]_vars

\* C28: every refresh that started finishes, whether its fetches succeed or
\* give their zero and empty values, and the step in which it finishes
\* leaves loading and refreshing false; once loading is false it is never
\* true again.
C28_RefreshFinishes ==
    /\ \A r \in Slots : (refreshPc[r] = "loading") ~> (refreshPc[r] = "done")
    /\ [][\A r \in Slots :
            (refreshPc[r] = "loading" /\ refreshPc'[r] = "done") =>
                (~loading' /\ ~refreshing')]_vars
    /\ [][~loading => ~loading']_vars

\* the first refresh has finished after both of its fetches failed, and the
\* two indicators are down
C28_Witness ==
    /\ refreshPc[1] = "done"
    /\ lastCompleted = 1
    /\ stats = ZeroStats
    /\ historicalPrices = <<>>
    /\ ~loading
    /\ ~refreshing

\* C29: the stored stats and the stored history always come from the same
\* refresh: both are still the initial values, or both are what one
\* completed refresh fetched, also when refreshes overlap.
C29_StatsAndHistoryTogether ==
    \/ stats = Null /\ historicalPrices = <<>>
    \/ \E r \in Slots :
          /\ refreshPc[r] = "done"
          /\ stats = pricePromise[r].value
          /\ historicalPrices = histPromise[r].value

\* the third refresh completed while the second was in flight, and stored
\* stats and a history that both differ from those of the first
C29_Witness ==
    /\ refreshPc[2] = "loading"
    /\ refreshPc[3] = "done"
    /\ stats = pricePromise[3].value
    /\ historicalPrices = histPromise[3].value
    /\ stats # pricePromise[1].value
    /\ historicalPrices # histPromise[1].value

\* C30: in every projection that is not empty the multiplier of the first
\* point is exactly 1, for every principal (0 included), every yield and
\* every price series.
C30_FirstMultiplierOne == Len(results) > 0 => results[1].multiplier = Num(1)

====
